---- MODULE Spec2Model ----
(***************************************************************************)
(* Model of src/bin/mushikui.rs: the worm-eaten long multiplication        *)
(* solver.  A puzzle is built by Mushikui::new from rows of characters and *)
(* solved by the mutually recursive rec_multiplicand / rec_multiplier,     *)
(* which mutate the puzzle in place and undo on return.  The recursion is  *)
(* modelled with an explicit call stack; every frame holds the locals of   *)
(* one call.                                                               *)
(***************************************************************************)
EXTENDS Integers, Sequences, FiniteSets

VARIABLES input, self, stack, result, status, out

vars == <<input, self, stack, result, status, out>>

(***************************************************************************)
(* Digit                                                                   *)
(***************************************************************************)

\* Digit::Any; Digit::Fix(d) is the number d in 0..9.
Any == -1

DigitChars == <<"0", "1", "2", "3", "4", "5", "6", "7", "8", "9">>

\* char::is_digit(10)
is_digit(ch) == \E k \in 1..10 : DigitChars[k] = ch

\* impl From<char> for Digit
DigitFrom(ch) ==
    IF is_digit(ch) THEN (CHOOSE k \in 1..10 : DigitChars[k] = ch) - 1
    ELSE Any

\* Digit::accept
accept(cell, d) == IF cell = Any THEN TRUE ELSE cell = d

\* Digit::is_any
is_any(cell) == cell = Any

\* Digit::digit(): Some(d) is d, None is Any; is_some tests it.
is_some(cell) == cell # Any

(***************************************************************************)
(* Helpers on sequences                                                    *)
(***************************************************************************)

Min(a, b) == IF a <= b THEN a ELSE b

Reverse(s) == [k \in 1..Len(s) |-> s[Len(s) - k + 1]]

MapDigitFrom(row) == [k \in 1..Len(row) |-> DigitFrom(row[k])]

(***************************************************************************)
(* Mushikui::new                                                           *)
(***************************************************************************)

\* The assertions of new, in order; an empty partial-product row makes
\* part[0] an out-of-range index, which panics like a failed assertion.
NewAccepts(in) ==
    /\ Len(in.multiplicand) # 0
    /\ Len(in.multiplier) # 0
    /\ Len(in.multiplicand) >= Len(in.multiplier)
    /\ Len(in.partial_product) = Len(in.multiplier)
    /\ Len(in.multiplicand) + Len(in.multiplier) - 1 <= Len(in.product)
    /\ Len(in.product) <= Len(in.multiplicand) + Len(in.multiplier)
    /\ in.multiplicand[1] # "0"
    /\ in.multiplier[1] # "0"
    /\ \A j \in 1..Len(in.partial_product) :
          /\ Len(in.partial_product[j]) # 0
          /\ in.partial_product[j][1] # "0"
    /\ in.product[1] # "0"

\* The struct new builds.
NewPuzzle(in) ==
    [multiplicand    |-> MapDigitFrom(in.multiplicand),
     multiplier      |-> MapDigitFrom(in.multiplier),
     partial_product |-> [j \in 1..Len(in.partial_product) |->
                             MapDigitFrom(in.partial_product[j])],
     product         |-> MapDigitFrom(in.product)]

\* The value of self before new has run.
NoPuzzle ==
    [multiplicand |-> <<>>, multiplier |-> <<>>,
     partial_product |-> <<>>, product |-> <<>>]

(***************************************************************************)
(* Arithmetic engine                                                       *)
(***************************************************************************)

\* .iter().rev().map_while(|digit| digit.digit()): the resolved digits of
\* the multiplicand, least significant first, up to the first Any.
RECURSIVE ResolvedSuffix(_, _)
ResolvedSuffix(mc, k) ==
    IF k = 0 \/ is_any(mc[k]) THEN <<>>
    ELSE <<mc[k]>> \o ResolvedSuffix(mc, k - 1)

\* MulLoop with the carry left out of the next digit.
RECURSIVE MulLoop_NoCarry(_, _, _, _, _)
MulLoop_NoCarry(ms, d, k, carry, prod) ==
    IF k > Len(ms) THEN [prod |-> prod, carry |-> carry]
    ELSE LET e == ms[k] * d
         IN  MulLoop_NoCarry(ms, d, k + 1, e \div 10, Append(prod, e % 10))

\* The for loop of calculate_partial_product from index k on.
RECURSIVE MulLoop(_, _, _, _, _)
MulLoop(ms, d, k, carry, prod) ==
    IF k > Len(ms) THEN [prod |-> prod, carry |-> carry]
    ELSE LET e == ms[k] * d + carry
         IN  MulLoop(ms, d, k + 1, e \div 10, Append(prod, e % 10))

\* calculate_partial_product appending the last carry whether or not
\* every multiplicand digit is resolved.
calculate_partial_product_AlwaysCarry(p, d) ==
    LET multiplicand == ResolvedSuffix(p.multiplicand, Len(p.multiplicand))
        r == MulLoop(multiplicand, d, 1, 0, <<>>)
        prod == IF r.carry > 0 THEN Append(r.prod, r.carry) ELSE r.prod
    IN  Reverse(prod)

calculate_partial_product(p, d) ==
    LET multiplicand == ResolvedSuffix(p.multiplicand, Len(p.multiplicand))
        r == MulLoop(multiplicand, d, 1, 0, <<>>)
        prod == IF r.carry > 0 /\ Len(multiplicand) = Len(p.multiplicand)
                THEN Append(r.prod, r.carry)
                ELSE r.prod
    IN  Reverse(prod)

\* The inner for loop of calculate_product: the sum of column k.
RECURSIVE ColumnSum(_, _, _)
ColumnSum(pp, k, j) ==
    IF j >= Len(pp) THEN 0
    ELSE (IF k >= j /\ k - j < Len(pp[j + 1])
          THEN LET c == pp[j + 1][Len(pp[j + 1]) - (k - j) - 1 + 1]
               IN  IF is_some(c) THEN c ELSE 0
          ELSE 0) + ColumnSum(pp, k, j + 1)

\* The number of columns the outer loop of calculate_product visits.
ProductColumns(p) ==
    Len(p.partial_product[Len(p.partial_product)]) + Len(p.multiplier) - 1

\* SumLoop with the carry left out of the next column.
RECURSIVE SumLoop_NoCarry(_, _, _, _, _)
SumLoop_NoCarry(pp, n, k, carry, prod) ==
    IF k >= n THEN [prod |-> prod, carry |-> carry]
    ELSE LET s == ColumnSum(pp, k, 0)
         IN  SumLoop_NoCarry(pp, n, k + 1, s \div 10, Append(prod, s % 10))

\* The outer for loop of calculate_product from column k on.
RECURSIVE SumLoop(_, _, _, _, _)
SumLoop(pp, n, k, carry, prod) ==
    IF k >= n THEN [prod |-> prod, carry |-> carry]
    ELSE LET s == ColumnSum(pp, k, 0)
         IN  SumLoop(pp, n, k + 1, (s + carry) \div 10,
                     Append(prod, (s + carry) % 10))

\* The while loop of calculate_product.
RECURSIVE CarryLoop(_, _)
CarryLoop(carry, prod) ==
    IF carry > 0 THEN CarryLoop(carry \div 10, Append(prod, carry % 10))
    ELSE prod

calculate_product(p) ==
    LET r == SumLoop(p.partial_product, ProductColumns(p), 0, 0, <<>>)
    IN  Reverse(CarryLoop(r.carry, r.prod))

(***************************************************************************)
(* Search engine: the pure steps of rec_multiplicand and rec_multiplier    *)
(***************************************************************************)

\* McandTries skipping the digit 0 at every position.
McandTries_SkipZero(p, i, d) ==
    /\ d # 0
    /\ accept(p.multiplicand[Len(p.multiplicand) - i], d)

\* for d in 0..=9 of rec_multiplicand: the iteration for d is skipped by
\* `continue` or because the cell does not accept d.
McandTries(p, i, d) ==
    LET len == Len(p.multiplicand)
    IN  /\ ~(d = 0 /\ i = len - 1)
        /\ accept(p.multiplicand[len - i], d)

\* self.multiplicand[len - i - 1] = Digit::Fix(d)
FixMultiplicand(p, i, d) ==
    [p EXCEPT !.multiplicand[Len(p.multiplicand) - i] = d]

\* self.multiplicand[len - i - 1] = old
UndoMultiplicand(p, i, old) ==
    [p EXCEPT !.multiplicand[Len(p.multiplicand) - i] = old]

\* part.iter().rev().zip(old_part.iter().rev()).all(|(&d, e)| e.accept(d))
AcceptFromRight(part, old_part) ==
    \A k \in 0..(Min(Len(part), Len(old_part)) - 1) :
        accept(old_part[Len(old_part) - k], part[Len(part) - k])

\* product.iter().zip(row.iter()).all(|(&d, e)| e.accept(d))
AcceptFromLeft(digits, row) ==
    \A k \in 1..Min(Len(digits), Len(row)) : accept(row[k], digits[k])

\* The test of one iteration of for d in 1..=9 of rec_multiplier.
MplierTries(p, j, d) ==
    LET len      == Len(p.multiplier)
        old_part == p.partial_product[j + 1]
        part     == calculate_partial_product(p, d)
    IN  /\ accept(p.multiplier[len - j], d)
        /\ Len(part) <= Len(old_part)
        /\ AcceptFromRight(part, old_part)

\* The commit of one iteration: the multiplier digit and the low cells of
\* partial_product[j].
CommitMultiplier(p, j, d) ==
    LET len      == Len(p.multiplier)
        old_part == p.partial_product[j + 1]
        part     == calculate_partial_product(p, d)
        n        == Min(Len(part), Len(old_part))
        row      == [k \in 1..Len(old_part) |->
                        IF k > Len(old_part) - n
                        THEN part[Len(part) - (Len(old_part) - k)]
                        ELSE old_part[k]]
    IN  [p EXCEPT !.multiplier[len - j] = d,
                  !.partial_product[j + 1] = row]

\* UndoMultiplier restoring the multiplier digit alone.
UndoMultiplier_DigitOnly(p, j, old_digit, old_part) ==
    [p EXCEPT !.multiplier[Len(p.multiplier) - j] = old_digit]

\* self.multiplier[len - j - 1] = old_digit; self.partial_product[j] = old_part
UndoMultiplier(p, j, old_digit, old_part) ==
    [p EXCEPT !.multiplier[Len(p.multiplier) - j] = old_digit,
              !.partial_product[j + 1] = old_part]

\* The assertions at the head of the final check.
FinalAsserts(p, i) ==
    /\ i = Len(p.multiplicand)
    /\ \A k \in 1..Len(p.multiplicand) : is_some(p.multiplicand[k])
    /\ \A k \in 1..Len(p.multiplier) : is_some(p.multiplier[k])

\* The full partial product of row j of the final check.
FinalRow(p, j) ==
    calculate_partial_product(p, p.multiplier[Len(p.multiplier) - j])

\* Row j passes the final check.
FinalRowOk(p, j) ==
    /\ Len(p.partial_product[j + 1]) = Len(FinalRow(p, j))
    /\ AcceptFromLeft(FinalRow(p, j), p.partial_product[j + 1])

\* ok after the for loop of the final check.
FinalOk(p) == \A j \in 0..(Len(p.multiplier) - 1) : FinalRowOk(p, j)

\* self after the for loop of the final check: every accepted row is
\* replaced by its computed digits.
FinalRows(p) ==
    [p EXCEPT !.partial_product =
        [j \in 1..Len(p.partial_product) |->
            IF FinalRowOk(p, j - 1) THEN FinalRow(p, j - 1)
            ELSE p.partial_product[j]]]

\* FinalProductOk comparing the lengths alone.
FinalProductOk_LengthOnly(q) == Len(calculate_product(q)) = Len(q.product)

\* The test of the computed product against the product row.
FinalProductOk(q) ==
    LET product == calculate_product(q)
    IN  /\ Len(product) = Len(q.product)
        /\ AcceptFromLeft(product, q.product)

\* FinalPush with a stray push left after the check of the rows: self is
\* recorded once the rows pass, and again once the product passes.
FinalPush_PushAfterRows(p) ==
    LET q == FinalRows(p)
    IN  (IF FinalOk(p) THEN <<q>> ELSE <<>>)
            \o (IF FinalOk(p) /\ FinalProductOk(q)
                THEN <<[q EXCEPT !.product = calculate_product(q)]>>
                ELSE <<>>)

\* What the final check pushes to result: nothing, or one clone of self
\* with the computed rows and product.
FinalPush(p) ==
    LET q == FinalRows(p)
    IN  IF FinalOk(p) /\ FinalProductOk(q)
        THEN <<[q EXCEPT !.product = calculate_product(q)]>>
        ELSE <<>>

\* self when the final check returns: self.product = old_product and
\* self.partial_product = old_partial_product.
FinalRestore(p, old_partial_product) ==
    [p EXCEPT !.partial_product = old_partial_product]

\* part[part.len() - i - 1] of the speculative pass is an index in range.
SkipIndexOk(p, i, j) == Len(p.partial_product[j + 1]) >= i + 1

\* SkipRow skipping every row of a speculative pass.
SkipRow_Always(p, i, j, last) == ~last

\* !last && part[part.len() - i - 1].is_any()
SkipRow(p, i, j, last) ==
    /\ ~last
    /\ is_any(p.partial_product[j + 1][Len(p.partial_product[j + 1]) - i])

(***************************************************************************)
(* The call stack                                                          *)
(***************************************************************************)

\* A call of rec_multiplicand(i) or rec_multiplier(i, j, last) with its
\* locals; entry is self at the call (not a variable of the program).
Frame(fn, i, j, last, p) ==
    [fn |-> fn, i |-> i, j |-> j, last |-> last, pc |-> "entry",
     d |-> 0, old |-> Any, old_part |-> <<>>, entry |-> p]

Top == stack[Len(stack)]

SetTop(f) == [stack EXCEPT ![Len(stack)] = f]

Call(f, g) == Append(SetTop(f), g)

Pop == SubSeq(stack, 1, Len(stack) - 1)

Running(fn, pc) ==
    /\ status = "running"
    /\ stack # <<>>
    /\ Top.fn = fn
    /\ Top.pc = pc

(***************************************************************************)
(* Actions                                                                 *)
(***************************************************************************)

\* Mushikui::new: builds the puzzle, or panics on a failed assertion.
New ==
    /\ status = "input"
    /\ IF NewAccepts(input)
       THEN self' = NewPuzzle(input) /\ status' = "ready"
       ELSE self' = self /\ status' = "rejected"
    /\ UNCHANGED <<input, out, stack, result>>

\* solve: let mut result = Vec::new(); self.rec_multiplicand(0, &mut result)
Solve ==
    /\ status = "ready"
    /\ status' = "running"
    /\ result' = <<>>
    /\ stack' = <<Frame("rec_multiplicand", 0, 0, FALSE, self)>>
    /\ UNCHANGED <<input, out, self>>

\* solve returns result when the outermost call has returned.
SolveReturn ==
    /\ status = "running"
    /\ stack = <<>>
    /\ status' = "done"
    /\ UNCHANGED <<input, out, self, stack, result>>

\* rec_multiplicand, the head: with every digit placed it calls the final
\* multiplier pass, otherwise it enters the for loop.
McandEntry ==
    /\ Running("rec_multiplicand", "entry")
    /\ IF Top.i = Len(self.multiplicand)
       THEN stack' = Call([Top EXCEPT !.pc = "tail"],
                          Frame("rec_multiplier", Top.i, 0, TRUE, self))
       ELSE stack' = SetTop([Top EXCEPT !.pc = "loop", !.d = 0])
    /\ UNCHANGED <<input, out, self, result, status>>

\* One iteration of for d in 0..=9 up to the recursive call.
McandLoop ==
    /\ Running("rec_multiplicand", "loop")
    /\ Top.d <= 9
    /\ IF McandTries(self, Top.i, Top.d)
       THEN /\ self' = FixMultiplicand(self, Top.i, Top.d)
            /\ stack' = Call([Top EXCEPT !.pc = "undo",
                                  !.old = self.multiplicand[Len(self.multiplicand) - Top.i]],
                             Frame("rec_multiplier", Top.i, 0, FALSE, self'))
       ELSE /\ self' = self
            /\ stack' = SetTop([Top EXCEPT !.d = Top.d + 1])
    /\ UNCHANGED <<input, out, result, status>>

\* The rest of the iteration, after the recursive call has returned.
McandUndo ==
    /\ Running("rec_multiplicand", "undo")
    /\ self' = UndoMultiplicand(self, Top.i, Top.old)
    /\ stack' = SetTop([Top EXCEPT !.pc = "loop", !.d = Top.d + 1])
    /\ UNCHANGED <<input, out, result, status>>

\* rec_multiplicand returns: after the final pass, or at the end of the loop.
McandReturn ==
    /\ \/ Running("rec_multiplicand", "tail")
       \/ Running("rec_multiplicand", "loop") /\ Top.d > 9
    /\ stack' = Pop
    /\ UNCHANGED <<input, out, self, result, status>>

\* rec_multiplier with j == len and last: the final check, which records a
\* solution or not, restores the rows and returns.
MplierFinal ==
    /\ Running("rec_multiplier", "entry")
    /\ Top.j = Len(self.multiplier)
    /\ Top.last
    /\ IF FinalAsserts(self, Top.i)
       THEN /\ result' = result \o FinalPush(self)
            /\ self' = FinalRestore(FinalRows(self), self.partial_product)
            /\ stack' = Pop
            /\ status' = status
       ELSE /\ status' = "panic"
            /\ UNCHANGED <<self, stack, result>>
    /\ UNCHANGED <<input, out>>

\* rec_multiplier with j == len and !last: the speculative pass is over,
\* the next multiplicand digit is placed.
MplierNext ==
    /\ Running("rec_multiplier", "entry")
    /\ Top.j = Len(self.multiplier)
    /\ ~Top.last
    /\ IF Top.i < Len(self.multiplicand)
       THEN /\ stack' = Call([Top EXCEPT !.pc = "tail"],
                             Frame("rec_multiplicand", Top.i + 1, 0, FALSE, self))
            /\ status' = status
       ELSE /\ status' = "panic"
            /\ stack' = stack
    /\ UNCHANGED <<input, out, self, result>>

\* rec_multiplier with j < len, the head: a row whose cell is unknown is
\* skipped in a speculative pass, otherwise the for loop is entered.  The
\* index part.len() - i - 1 is computed in usize: below zero it panics.
MplierEntry ==
    /\ Running("rec_multiplier", "entry")
    /\ Top.j < Len(self.multiplier)
    /\ IF ~Top.last /\ ~SkipIndexOk(self, Top.i, Top.j)
       THEN /\ status' = "panic"
            /\ stack' = stack
       ELSE /\ status' = status
            /\ IF SkipRow(self, Top.i, Top.j, Top.last)
               THEN stack' = Call([Top EXCEPT !.pc = "tail"],
                                  Frame("rec_multiplier", Top.i, Top.j + 1,
                                        Top.last, self))
               ELSE stack' = SetTop([Top EXCEPT !.pc = "loop", !.d = 1])
    /\ UNCHANGED <<input, out, self, result>>

\* One iteration of for d in 1..=9 up to the recursive call.
MplierLoop ==
    /\ Running("rec_multiplier", "loop")
    /\ Top.d <= 9
    /\ IF MplierTries(self, Top.j, Top.d)
       THEN /\ self' = CommitMultiplier(self, Top.j, Top.d)
            /\ stack' = Call([Top EXCEPT !.pc = "undo",
                                  !.old = self.multiplier[Len(self.multiplier) - Top.j],
                                  !.old_part = self.partial_product[Top.j + 1]],
                             Frame("rec_multiplier", Top.i, Top.j + 1,
                                   Top.last, self'))
       ELSE /\ self' = self
            /\ stack' = SetTop([Top EXCEPT !.d = Top.d + 1])
    /\ UNCHANGED <<input, out, result, status>>

\* The rest of the iteration, after the recursive call has returned.
MplierUndo ==
    /\ Running("rec_multiplier", "undo")
    /\ self' = UndoMultiplier(self, Top.j, Top.old, Top.old_part)
    /\ stack' = SetTop([Top EXCEPT !.pc = "loop", !.d = Top.d + 1])
    /\ UNCHANGED <<input, out, result, status>>

\* rec_multiplier returns: after a skipped row or the next multiplicand
\* digit, or at the end of the loop.
MplierReturn ==
    /\ \/ Running("rec_multiplier", "tail")
       \/ Running("rec_multiplier", "loop") /\ Top.d > 9
    /\ stack' = Pop
    /\ UNCHANGED <<input, out, self, result, status>>

Search ==
    \/ McandEntry
    \/ McandLoop
    \/ McandUndo
    \/ McandReturn
    \/ MplierFinal
    \/ MplierNext
    \/ MplierEntry
    \/ MplierLoop
    \/ MplierUndo
    \/ MplierReturn

Next == New \/ Solve \/ SolveReturn \/ Search

(***************************************************************************)
(* The problems of main                                                    *)
(***************************************************************************)

\* A puzzle as mushikui_from hands it to new: rows of characters.
Input(mc, mp, pp, pr) ==
    [multiplicand |-> mc, multiplier |-> mp, partial_product |-> pp,
     product |-> pr]

\* Q.1
Q1 == Input(<<"9">>, <<"*">>, <<<<"2", "7">>>>, <<"2", "7">>)

\* Q.2
Q2 == Input(<<"2", "7">>, <<"*">>, <<<<"*", "*", "9">>>>, <<"*", "*", "9">>)

\* Q.6
Q6 == Input(<<"*", "1">>, <<"2", "*">>,
            <<<<"*", "*", "3">>, <<"*", "4", "*">>>>,
            <<"*", "*", "*", "*">>)

\* Q.7
Q7 == Input(<<"2", "*">>, <<"4", "*">>,
            <<<<"6", "*">>, <<"*", "8">>>>,
            <<"*", "*", "*">>)

\* The fifth problem of main, which carries no number.
Q5th == Input(<<"7", "*">>, <<"*", "*">>,
              <<<<"*", "5", "*">>, <<"*", "*">>>>,
              <<"*", "3", "*">>)

MainProblems == {Q1, Q2, Q6, Q7, Q5th}

InitOn(problems) ==
    /\ input \in problems
    /\ self = NoPuzzle
    /\ stack = <<>>
    /\ result = <<>>
    /\ status = "input"
    /\ out = <<>>

InitMain == InitOn(MainProblems)

SpecMain == InitMain /\ [][Next]_vars

(***************************************************************************)
(* The puzzles the search is run on: long multiplications written out,     *)
(* with cells hidden and with one shape or digit edit.                     *)
(***************************************************************************)

\* The decimal digits of n, most significant first.
RECURSIVE ToDigits(_)
ToDigits(n) == IF n < 10 THEN <<n>> ELSE Append(ToDigits(n \div 10), n % 10)

ToChars(n) == [k \in 1..Len(ToDigits(n)) |-> DigitChars[ToDigits(n)[k] + 1]]

\* The long multiplication m x n written out in full.
Layout(m, n) ==
    LET ds == Reverse(ToDigits(n))
    IN  Input(ToChars(m), ToChars(n),
              [j \in 1..Len(ds) |-> ToChars(m * ds[j])],
              ToChars(m * n))

\* The most cells a mask keeps at one end of a result row.
MaxKeep == 1

\* A mask of a result row keeps the whole row, or its first or last `keep`
\* cells; a mask of a factor hides nothing, or its first or its last cell.
KeepAll == [side |-> "all", keep |-> 0]

RowMasks == {KeepAll} \cup [side : {"left", "right"}, keep : 0..MaxKeep]

FactorMasks == {"all", "hide_first", "hide_last"}

Mask(row, m) ==
    [k \in 1..Len(row) |->
        IF \/ m.side = "all"
           \/ m.side = "left" /\ k <= m.keep
           \/ m.side = "right" /\ k > Len(row) - m.keep
        THEN row[k] ELSE "*"]

FactorMask(row, m) ==
    [k \in 1..Len(row) |->
        IF \/ m = "hide_first" /\ k = 1
           \/ m = "hide_last" /\ k = Len(row)
        THEN "*" ELSE row[k]]

Masked(in, m1, m2, m3, m4) ==
    Input(FactorMask(in.multiplicand, m1), FactorMask(in.multiplier, m2),
          [j \in 1..Len(in.partial_product) |-> Mask(in.partial_product[j], m3)],
          Mask(in.product, m4))

Edits ==
    {"no_multiplicand", "no_multiplier", "drop_row", "add_row",
     "long_row", "short_row", "long_product", "short_product",
     "zero_multiplicand", "zero_multiplier", "zero_row", "zero_product",
     "other_row", "other_product"}

SetHead(row, ch) == [k \in 1..Len(row) |-> IF k = 1 THEN ch ELSE row[k]]

\* The last cell, when it is a digit, replaced by the next digit.
OtherLast(row) ==
    [k \in 1..Len(row) |->
        IF k = Len(row) /\ is_digit(row[k])
        THEN DigitChars[((DigitFrom(row[k]) + 1) % 10) + 1] ELSE row[k]]

Edit(in, e) ==
    LET pp == in.partial_product
    IN  CASE e = "no_multiplicand" -> [in EXCEPT !.multiplicand = <<>>]
          [] e = "no_multiplier" -> [in EXCEPT !.multiplier = <<>>]
          [] e = "drop_row" -> [in EXCEPT !.partial_product = Tail(pp)]
          [] e = "add_row" -> [in EXCEPT !.partial_product = Append(pp, pp[1])]
          [] e = "long_row" ->
                [in EXCEPT !.partial_product[1] = <<"*">> \o pp[1]]
          [] e = "short_row" -> [in EXCEPT !.partial_product[1] = Tail(pp[1])]
          [] e = "long_product" -> [in EXCEPT !.product = <<"*">> \o in.product]
          [] e = "short_product" -> [in EXCEPT !.product = Tail(in.product)]
          [] e = "zero_multiplicand" ->
                [in EXCEPT !.multiplicand = SetHead(in.multiplicand, "0")]
          [] e = "zero_multiplier" ->
                [in EXCEPT !.multiplier = SetHead(in.multiplier, "0")]
          [] e = "zero_row" ->
                [in EXCEPT !.partial_product[1] = SetHead(pp[1], "0")]
          [] e = "zero_product" ->
                [in EXCEPT !.product = SetHead(in.product, "0")]
          [] e = "other_row" ->
                [in EXCEPT !.partial_product[1] = OtherLast(pp[1])]
          [] e = "other_product" ->
                [in EXCEPT !.product = OtherLast(in.product)]

\* The multiplications written out: multiplicand and multiplier.
Pairs ==
    {<<9, 3>>, <<9, 7>>, <<27, 7>>, <<27, 43>>, <<71, 23>>, <<22, 43>>,
     <<105, 7>>, <<99, 99>>, <<9, 23>>, <<27, 30>>}

\* Every multiplication with cells hidden in all four parts.
Hidden ==
    {Masked(Layout(mn[1], mn[2]), m1, m2, m3, m4) :
        mn \in Pairs, m1 \in FactorMasks, m2 \in FactorMasks,
        m3 \in RowMasks, m4 \in RowMasks}

\* Every edit of every multiplication with cells hidden in the multiplicand
\* and in the partial products.
Edited ==
    {Edit(Masked(Layout(mn[1], mn[2]), m1, "all", m3, KeepAll), e) :
        mn \in Pairs, m1 \in FactorMasks, m3 \in RowMasks, e \in Edits}

\* The fifth problem of main with its product hidden: it has several
\* solutions.
Q5thOpen == [Q5th EXCEPT !.product = <<"*", "*", "*">>]

Problems == MainProblems \cup Hidden \cup Edited \cup {Q5thOpen}

Init == InitOn(Problems)

Spec == Init /\ [][Next]_vars

(***************************************************************************)
(* Arithmetic of the claims: numbers and their decimal digits, computed    *)
(* with integer arithmetic and not digit by digit.                         *)
(***************************************************************************)

\* The puzzle solve was called on.
Orig == NewPuzzle(input)

RECURSIVE Value(_)
Value(ds) ==
    IF ds = <<>> THEN 0
    ELSE 10 * Value(SubSeq(ds, 1, Len(ds) - 1)) + ds[Len(ds)]

RECURSIVE Pow10(_)
Pow10(n) == IF n = 0 THEN 1 ELSE 10 * Pow10(n - 1)

Concrete(row) == \A k \in 1..Len(row) : row[k] \in 0..9

\* The digits fill the row: same length, and every known cell agrees.
Fits(row, ds) ==
    /\ Len(row) = Len(ds)
    /\ \A k \in 1..Len(row) : row[k] = Any \/ row[k] = ds[k]

\* The j-th multiplier digit counted from the least significant end, j >= 0.
MultiplierDigit(p, j) == p.multiplier[Len(p.multiplier) - j]

\* The long multiplication of multiplicand value m by the multiplier digits
\* ds, written out.
Worked(m, ds) ==
    [multiplicand    |-> ToDigits(m),
     multiplier      |-> ds,
     partial_product |-> [j \in 1..Len(ds) |-> ToDigits(m * ds[Len(ds) - j + 1])],
     product         |-> ToDigits(m * Value(ds))]

\* The solutions found by enumerating every multiplicand without leading
\* zero and every multiplier with digits 1..9.
BruteForce(p) ==
    LET L1 == Len(p.multiplicand)
        L2 == Len(p.multiplier)
        ms == {m \in Pow10(L1 - 1)..(Pow10(L1) - 1) :
                  Fits(p.multiplicand, ToDigits(m))}
        ns == {ds \in [1..L2 -> 1..9] : Fits(p.multiplier, ds)}
    IN  {w \in {Worked(m, ds) : m \in ms, ds \in ns} :
            /\ \A j \in 1..L2 : Fits(p.partial_product[j], w.partial_product[j])
            /\ Fits(p.product, w.product)}

Solutions == {result[k] : k \in 1..Len(result)}

HasWildcard(row) == \E k \in 1..Len(row) : row[k] = Any

HasKnown(row) == \E k \in 1..Len(row) : row[k] # Any

(***************************************************************************)
(* Claims                                                                  *)
(***************************************************************************)

\* C1 (soundness): in every solution returned by solve, with M the
\* value of its multiplicand, partial product j is the decimal digits of
\* M times the j-th multiplier digit from the right, and the product is the
\* decimal digits of M times the value of the multiplier, which is the sum
\* of the partial products shifted by their positions.
C1_Soundness ==
    status = "done" => \A k \in 1..Len(result) :
        LET S  == result[k]
            L2 == Len(S.multiplier)
            M  == Value(S.multiplicand)
        IN  /\ Concrete(S.multiplicand)
            /\ Concrete(S.multiplier)
            /\ \A j \in 0..(L2 - 1) :
                  S.partial_product[j + 1] = ToDigits(M * MultiplierDigit(S, j))
            /\ \A j \in 1..L2 : Concrete(S.partial_product[j])
            /\ S.product = ToDigits(M * Value(S.multiplier))

\* A search that has returned a solution of a puzzle with two multiplier
\* digits, a carry into a third digit and hidden cells.
C1_Witness ==
    /\ status = "done"
    /\ Len(result) >= 1
    /\ Len(result[1].multiplier) = 2
    /\ Len(result[1].partial_product[2]) = 3
    /\ HasWildcard(Orig.multiplicand)
    /\ HasWildcard(Orig.multiplier)
    /\ HasWildcard(Orig.product)

\* C2 (completeness): when solve has returned, the set of its solutions is
\* the set found by brute-force enumeration of the multiplicands and
\* multipliers (multiplicands of at most 3 digits); and a search that
\* panics loses no assignment either: the brute force keeps none.
C2_Completeness ==
    /\ (status = "done" /\ Len(Orig.multiplicand) <= 3)
          => Solutions = BruteForce(Orig)
    /\ status = "panic" => BruteForce(Orig) = {}

\* A search that has returned several solutions after speculative passes
\* over a hidden multiplicand digit.
C2_Witness ==
    /\ status = "done"
    /\ Len(Orig.multiplicand) >= 2
    /\ HasWildcard(Orig.multiplicand)
    /\ HasWildcard(Orig.multiplier)
    /\ \E j \in 1..Len(Orig.partial_product) : HasKnown(Orig.partial_product[j])
    /\ Cardinality(BruteForce(Orig)) >= 2
    /\ Cardinality(Solutions) >= 2

\* C3 (constraint fidelity): every solution returned by solve has the row lengths of the
\* original puzzle in all four parts, no wildcard cell, and at every cell
\* the original puzzle fixes, the same digit.
C3_Fidelity ==
    status = "done" => \A k \in 1..Len(result) :
        LET S == result[k]
        IN  /\ Fits(Orig.multiplicand, S.multiplicand)
            /\ Concrete(S.multiplicand)
            /\ Fits(Orig.multiplier, S.multiplier)
            /\ Concrete(S.multiplier)
            /\ Len(S.partial_product) = Len(Orig.partial_product)
            /\ \A j \in 1..Len(Orig.partial_product) :
                  /\ Fits(Orig.partial_product[j], S.partial_product[j])
                  /\ Concrete(S.partial_product[j])
            /\ Fits(Orig.product, S.product)
            /\ Concrete(S.product)

\* A recorded solution of a puzzle whose rows mix known and hidden cells.
C3_Witness ==
    /\ status = "done"
    /\ Len(result) >= 1
    /\ HasKnown(Orig.product) /\ HasWildcard(Orig.product)
    /\ HasKnown(Orig.partial_product[1])
    /\ HasWildcard(Orig.partial_product[1])
    /\ HasKnown(Orig.multiplicand) /\ HasWildcard(Orig.multiplicand)

\* The structural constraints of the data model on the rows given to new.
WellFormed(in) ==
    LET L1 == Len(in.multiplicand)
        L2 == Len(in.multiplier)
    IN  /\ L1 >= 1
        /\ L2 >= 1
        /\ L2 <= L1
        /\ Len(in.partial_product) = L2
        /\ \A j \in 1..Len(in.partial_product) :
              /\ Len(in.partial_product[j]) >= 1
              /\ Len(in.partial_product[j]) <= L1 + 1
              /\ in.partial_product[j][1] # "0"
        /\ Len(in.product) \in {L1 + L2 - 1, L1 + L2}
        /\ in.multiplicand[1] # "0"
        /\ in.multiplier[1] # "0"
        /\ in.product[1] # "0"

\* C4 (no panic): on a well-formed puzzle the search never panics: no failed
\* assertion, no index below zero or out of range.
C4_NoPanic == WellFormed(input) => status # "panic"

\* The violations of the structural constraints that construction is to
\* refuse.
Malformed(in) ==
    LET L1 == Len(in.multiplicand)
        L2 == Len(in.multiplier)
    IN  \/ L1 = 0
        \/ L2 = 0
        \/ L2 > L1
        \/ Len(in.partial_product) # L2
        \/ \E j \in 1..Len(in.partial_product) :
              Len(in.partial_product[j]) > L1 + 1
        \/ Len(in.product) \notin {L1 + L2 - 1, L1 + L2}
        \/ L1 > 0 /\ in.multiplicand[1] = "0"
        \/ L2 > 0 /\ in.multiplier[1] = "0"
        \/ \E j \in 1..Len(in.partial_product) :
              Len(in.partial_product[j]) > 0 /\ in.partial_product[j][1] = "0"
        \/ Len(in.product) > 0 /\ in.product[1] = "0"

\* C5 (construction-time validation): for an input that violates a structural
\* constraint new builds no puzzle, and no step of the search is taken.
C5_Validation ==
    Malformed(input) =>
        /\ status \in {"input", "rejected"}
        /\ self = NoPuzzle
        /\ stack = <<>>

\* C6 (the problems of main): solve returns exactly one solution for every
\* problem; for 9 x * the multiplier digit is 3, for 27 x * it is 7 with
\* partial product 189 and product 189.
C6_MainUnique ==
    status = "done" =>
        /\ Len(result) = 1
        /\ input = Q1 => result[1].multiplier = <<3>>
        /\ input = Q2 =>
              /\ result[1].multiplier = <<7>>
              /\ result[1].partial_product = <<<<1, 8, 9>>>>
              /\ result[1].product = <<1, 8, 9>>

\* solve has returned on the second problem of main.
C6_Witness ==
    /\ status = "done"
    /\ input = Q2
    /\ Len(result) = 1
    /\ result[1].multiplicand = <<2, 7>>

(***************************************************************************)
(* The arithmetic engine on its own: calculate_product applied to concrete *)
(* rows, calculate_partial_product applied to a multiplicand and a digit.  *)
(***************************************************************************)

NoInput == Input(<<>>, <<>>, <<>>, <<>>)

\* The most partial-product rows summed, and the largest row value.
MaxRows == 2

MaxRowValue == 110

\* One to MaxRows concrete rows without leading zero, of any lengths.
RowLists ==
    UNION {[1..n -> {ToDigits(v) : v \in 1..MaxRowValue}] : n \in 1..MaxRows}

InitProduct ==
    /\ input = NoInput
    /\ \E rows \in RowLists :
          self = [NoPuzzle EXCEPT !.partial_product = rows,
                                  !.multiplier = [j \in 1..Len(rows) |-> Any]]
    /\ stack = <<>>
    /\ result = <<>>
    /\ status = "rows"
    /\ out = <<>>

\* self.calculate_product()
Product ==
    /\ status = "rows"
    /\ out' = calculate_product(self)
    /\ status' = "summed"
    /\ UNCHANGED <<input, self, stack, result>>

SpecProduct == InitProduct /\ [][Product]_vars

\* The sum of the rows, row j shifted left by j places.
RECURSIVE ShiftedSum(_, _)
ShiftedSum(pp, j) ==
    IF j >= Len(pp) THEN 0
    ELSE Value(pp[j + 1]) * Pow10(j) + ShiftedSum(pp, j + 1)

\* C7 (summation correctness): for concrete rows of any lengths at shifts
\* 0..L2-1, calculate_product returns the decimal digits of the sum of the
\* shifted rows.
C7_Summation ==
    status = "summed" => out = ToDigits(ShiftedSum(self.partial_product, 0))

\* The longest multiplicand multiplied.
MaxLen == 3

\* Multiplicands as the search meets them: cells known or not, the leading
\* cell never 0.
Multiplicands ==
    UNION {{mc \in [1..n -> (0..9) \cup {Any}] : mc[1] # 0} : n \in 1..MaxLen}

InitPartialProduct ==
    /\ input = NoInput
    /\ \E mc \in Multiplicands : self = [NoPuzzle EXCEPT !.multiplicand = mc]
    /\ stack = <<>>
    /\ result = <<>>
    /\ status = "multiplicand"
    /\ out = <<>>

\* self.calculate_partial_product(d) for a digit d in 1..9
PartialProduct ==
    /\ status = "multiplicand"
    /\ \E d \in 1..9 :
          out' = [d |-> d, digits |-> calculate_partial_product(self, d)]
    /\ status' = "multiplied"
    /\ UNCHANGED <<input, self, stack, result>>

SpecPartialProduct == InitPartialProduct /\ [][PartialProduct]_vars

\* The number of known cells at the least significant end of a row.
KnownSuffix(row) ==
    CHOOSE n \in 0..Len(row) :
        /\ \A k \in (Len(row) - n + 1)..Len(row) : row[k] # Any
        /\ n < Len(row) => row[Len(row) - n] = Any

\* C8 (partial-product arithmetic): for d in 1..9, on a fully known
\* multiplicand of value M calculate_partial_product returns the decimal
\* digits of M*d; on a multiplicand whose known suffix has n < L1 digits and
\* value V it returns n digits, the n low-order digits of V*d.
C8_PartialProduct ==
    status = "multiplied" =>
        LET mc == self.multiplicand
            n  == KnownSuffix(mc)
            V  == Value(SubSeq(mc, Len(mc) - n + 1, Len(mc)))
        IN  IF n = Len(mc)
            THEN out.digits = ToDigits(V * out.d)
            ELSE /\ Len(out.digits) = n
                 /\ Concrete(out.digits)
                 /\ Value(out.digits) = (V * out.d) % Pow10(n)

\* A partly known multiplicand whose known suffix times d carries out of
\* its n digits: the carry is not appended.
C8_Witness ==
    /\ status = "multiplied"
    /\ KnownSuffix(self.multiplicand) = 2
    /\ Len(self.multiplicand) = 3
    /\ Value(SubSeq(self.multiplicand, 2, 3)) * out.d >= 100
    /\ Len(out.digits) = 2

(***************************************************************************)
(* Claims on the recursion                                                 *)
(***************************************************************************)

\* C9 (mutate and undo): whenever a call of rec_multiplicand or
\* rec_multiplier returns, self is what it was when the call was entered;
\* a recorded solution is never changed afterwards; and when solve has
\* returned, self is the puzzle solve was called on.
C9_UndoOnReturn ==
    /\ [][(status = "running" /\ Len(stack') < Len(stack))
              => self' = Top.entry]_vars
    /\ [][\A k \in 1..Len(result) :
              Len(result') >= k /\ result'[k] = result[k]]_vars
    /\ [](status = "done" => self = Orig)

\* The loop of rec_multiplier goes on after a commit was undone, in a search
\* that has recorded a solution, on a row with hidden cells.
C9_Witness ==
    /\ Running("rec_multiplier", "loop")
    /\ Top.d >= 2
    /\ Len(result) >= 1
    /\ self = Top.entry
    /\ HasWildcard(self.partial_product[Top.j + 1])
    /\ HasWildcard(self.multiplier)

\* rec_multiplicand(i + 1) has just been called by the speculative pass
\* rec_multiplier(i, L2, false).
AfterSpeculativePass ==
    /\ Running("rec_multiplicand", "entry")
    /\ Top.i >= 1

\* C10 as stated: when the search moves from the speculative pass on to the
\* next multiplicand digit, the multiplier row is that of the original
\* puzzle.
C10_NothingCommitted == AfterSpeculativePass => self.multiplier = Orig.multiplier

\* Row j of the original puzzle has a known cell among its i least
\* significant cells.
Examined(j, i) ==
    LET row == Orig.partial_product[j + 1]
    IN  \E k \in 0..(i - 1) : row[Len(row) - k] # Any

\* C10 as amended: when the search moves from the speculative pass for
\* multiplicand digit i on to digit i + 1, the multiplier cell of every row
\* whose original cells at positions 0..i from the right are all hidden is
\* the original cell, and the multiplier cell of every other row is a digit
\* 1..9 that the original cell accepts: the speculative pass commits it.
C10_CommitsExaminedRows ==
    AfterSpeculativePass =>
        \A j \in 0..(Len(self.multiplier) - 1) :
            LET cell == MultiplierDigit(self, j)
                o    == MultiplierDigit(Orig, j)
            IN  IF Examined(j, Top.i)
                THEN cell \in 1..9 /\ (o = Any \/ o = cell)
                ELSE cell = o

\* The search moves on with one multiplier digit committed by the
\* speculative pass and one left hidden.
C10_Witness ==
    /\ AfterSpeculativePass
    /\ Len(self.multiplier) = 2
    /\ Orig.multiplier = <<Any, Any>>
    /\ \E j \in 0..1 : Examined(j, Top.i) /\ MultiplierDigit(self, j) # Any
    /\ \E j \in 0..1 : ~Examined(j, Top.i) /\ MultiplierDigit(self, j) = Any

\* Two solutions give the same digits to the multiplicand and to the
\* multiplier.
SameAssignment(S, T) ==
    /\ S.multiplicand = T.multiplicand
    /\ S.multiplier = T.multiplier

\* C11 (no duplicate solutions): in the sequence solve returns no two
\* entries have the same multiplicand digits and the same multiplier digits,
\* and its length is the number of distinct consistent assignments, those
\* the brute-force enumeration keeps.
C11_NoDuplicates ==
    status = "done" =>
        /\ \A k \in 1..Len(result) : \A l \in 1..Len(result) :
              SameAssignment(result[k], result[l]) => k = l
        /\ Len(result) = Cardinality(BruteForce(Orig))

\* solve has returned several solutions of a puzzle with two hidden
\* multiplier digits, one chosen in a speculative pass (its row shows its
\* last cell) and one left to the final pass (its row hides it).
C11_Witness ==
    /\ status = "done"
    /\ Len(result) >= 2
    /\ Orig.multiplier = <<Any, Any>>
    /\ \E j \in 0..1 : Examined(j, Len(Orig.multiplicand))
    /\ \E j \in 0..1 : ~Examined(j, Len(Orig.multiplicand))

====
